---- MODULE Spec2Model ----
(***************************************************************************)
(* TimesheetSimplifier: the time-entry store (utils.TimeEntryManager), its *)
(* persisted JSON document, and the DailyEntries and WeeklySummary value  *)
(* types (models.py), and the charge-code repository                      *)
(* (utils.ChargeCodeManager) with the files of its directory.             *)
(*                                                                         *)
(* Dates are day ordinals (consecutive calendar days); date.isoformat() is *)
(* the injective conversion IsoFormat, whose values are the keys of the    *)
(* in-memory mapping and of the persisted document.  Hours are whole       *)
(* numbers of hours.  created_at / updated_at are not modelled.            *)
(***************************************************************************)
EXTENDS Integers, Sequences, FiniteSets, TLC

VARIABLES
    config,       \* ConfigManager.config, flattened to dotted keys
    entries,      \* per store instance: TimeEntryManager.entries
    constructed,  \* the store instances whose __init__ has run
    file,         \* the entries file (data_dir/time_entries.json)
    last,         \* the last call: operation, arguments, returned value
    everStored,   \* history: the dates an add has ever stored an entry under
    acked,        \* history: entries whose add returned True, not deleted since
    daily,        \* a DailyEntries value held by a caller (or NoDaily)
    charge_codes,   \* ChargeCodeManager.charge_codes
    last_modified,  \* ChargeCodeManager.last_modified
    dir,            \* the files of paths.charge_codes_dir, by name
    issued          \* the number of identifiers uuid4 has issued to charge codes

\* The state of the charge-code repository and of its directory.
ccVars == <<charge_codes, last_modified, dir, issued>>

vars == <<config, entries, constructed, file, last, everStored, acked, daily,
          charge_codes, last_modified, dir, issued>>

----------------------------------------------------------------------------
(* Bounds and input sets *)

\* The number of consecutive calendar days the callers use.
NumDates == 3
\* add is not called on a store instance already holding this many entries.
MaxEntries == 3

Dates == 1..NumDates
Managers == {"A", "B"}
Primary == "A"
Ids == {"id-1", "id-2"}

None == <<>>
Some(s) == <<s>>

\* The entries the callers build: an identifier with hours, charge code and
\* notes.  The identifier is the caller's (an explicit id) or uuid4's.
Templates ==
    { [id |-> "id-1", hours |-> 8, charge_code_id |-> "cc-1",
       charge_code_name |-> "Alpha", notes |-> None],
      [id |-> "id-2", hours |-> 8, charge_code_id |-> "cc-1",
       charge_code_name |-> "Alpha", notes |-> None],
      [id |-> "id-2", hours |-> 8, charge_code_id |-> "cc-2",
       charge_code_name |-> "Beta", notes |-> Some("review")],
      [id |-> "id-1", hours |-> 17, charge_code_id |-> "cc-2",
       charge_code_name |-> "Beta", notes |-> Some("")] }

\* config.toml either has no features.max_hours_per_day or sets it to 16.
ConfigChoices == { <<>>, ("features.max_hours_per_day" :> 16) }

----------------------------------------------------------------------------
(* models.TimeEntry *)

\* A variant of HoursValid that admits zero hours.
HoursValid_Closed(h) == h >= 0 /\ h <= 24

\* The validator of TimeEntry.hours: Field(gt=0, le=24) and validate_hours.
HoursValid(h) == h > 0 /\ h <= 24

\* TimeEntry(date=d, **t)
MkEntry(d, t) ==
    [id |-> t.id, date |-> d, charge_code_id |-> t.charge_code_id,
     charge_code_name |-> t.charge_code_name, hours |-> t.hours,
     notes |-> t.notes]

\* The TimeEntry objects callers pass to the store (construction succeeded).
EntryInputs ==
    { MkEntry(d, t) : d \in Dates, t \in {q \in Templates : HoursValid(q.hours)} }

RECURSIVE SumHours(_)
\* sum(e.hours for e in seq)
SumHours(seq) ==
    IF seq = <<>> THEN 0 ELSE seq[1].hours + SumHours(Tail(seq))

----------------------------------------------------------------------------
(* Conversions between the in-memory mapping and the JSON document *)

\* date.isoformat() / str(date): the ISO date string of a day.
IsoFormat(d) == [iso |-> d]
\* pydantic's parse of an ISO date string.
ParseDate(s) == s.iso

JsonNull == [null |-> TRUE]
JsonString(s) == [str |-> s]

\* entry.dict() as json.dump(..., default=str) writes it.
EntryToJson(e) ==
    [id |-> e.id, date |-> IsoFormat(e.date),
     charge_code_id |-> e.charge_code_id,
     charge_code_name |-> e.charge_code_name, hours |-> e.hours,
     notes |-> IF e.notes = None THEN JsonNull ELSE JsonString(e.notes[1])]

\* A string that is not an ISO date.
NotADate == [text |-> "garbage"]

\* Whether TimeEntry(**j) validates: the date parses and the hours pass.
JsonEntryValid(j) == "iso" \in DOMAIN j.date /\ HoursValid(j.hours)

\* TimeEntry(**j) for a record that validates.
EntryFromJson(j) ==
    [id |-> j.id, date |-> ParseDate(j.date),
     charge_code_id |-> j.charge_code_id,
     charge_code_name |-> j.charge_code_name, hours |-> j.hours,
     notes |-> IF j.notes = JsonNull THEN None ELSE Some(j.notes.str)]

\* [entry.dict() for entry in entry_list]
EntriesToJson(seq) == [i \in 1..Len(seq) |-> EntryToJson(seq[i])]

\* [TimeEntry(**entry) for entry in entry_list]
EntriesFromJson(seq) == [i \in 1..Len(seq) |-> EntryFromJson(seq[i])]

EmptyMap == <<>>
NoFile == [kind |-> "absent"]
\* A file open() cannot read.
UnreadableFile == [kind |-> "unreadable"]
\* A file whose text is not JSON.
CorruptFile == [kind |-> "corrupt"]
\* A JSON document that is not an object of lists (a list, a number, ...).
NotObjectFile == [kind |-> "notobject"]
JsonFile(doc) == [kind |-> "json", data |-> doc]

\* The document save_entries builds from a mapping.
ToDocument(map) == [k \in DOMAIN map |-> EntriesToJson(map[k])]

\* The body of the try block of load_entries: the exception it raises, or
\* the mapping it builds.
TryLoad(f) ==
    IF f.kind = "unreadable" THEN [exc |-> "PermissionError"]
    ELSE IF f.kind = "corrupt" THEN [exc |-> "JSONDecodeError"]
    ELSE IF f.kind = "notobject" THEN [exc |-> "AttributeError"]
    ELSE IF \E k \in DOMAIN f.data :
              \E i \in 1..Len(f.data[k]) : ~JsonEntryValid(f.data[k][i])
         THEN [exc |-> "ValidationError"]
         ELSE [exc |-> "none",
               value |-> [k \in DOMAIN f.data |-> EntriesFromJson(f.data[k])]]

\* A variant of Caught that handles only json.JSONDecodeError.
Caught_JsonOnly(exc) == exc = "JSONDecodeError"

\* except Exception: every exception the try block raises is one.
Caught(exc) ==
    exc \in {"PermissionError", "JSONDecodeError", "AttributeError",
             "ValidationError"}

\* load_entries: whether it raises, and the mapping it returns.
LoadResult(f) ==
    IF f.kind = "absent" THEN [raised |-> FALSE, value |-> EmptyMap]
    ELSE LET try == TryLoad(f)
         IN IF try.exc = "none" THEN [raised |-> FALSE, value |-> try.value]
            ELSE IF Caught(try.exc) THEN [raised |-> FALSE, value |-> EmptyMap]
            ELSE [raised |-> TRUE]

\* TimeEntryManager.load_entries, as a function of the file.
LoadEntries(f) == LoadResult(f).value

\* ConfigManager.get(key, default)
ConfigGet(key, default) ==
    IF key \in DOMAIN config THEN config[key] ELSE default

MaxHoursPerDay == ConfigGet("features.max_hours_per_day", 24)

----------------------------------------------------------------------------
(* The state after ConfigManager() and TimeEntryManager(config) have run   *)
(* in a fresh working directory.                                           *)

NoDaily == [kind |-> "none"]
NoCall == [op |-> "init", mgr |-> Primary, raised |-> FALSE]

Init ==
    /\ config \in ConfigChoices
    /\ entries = [m \in Managers |-> EmptyMap]
    /\ constructed = {Primary}
    /\ file = NoFile
    /\ last = NoCall
    /\ everStored = {}
    /\ acked = {}
    /\ daily = NoDaily
    /\ charge_codes = <<>>
    /\ last_modified = None
    /\ dir = <<>>
    /\ issued = 0

----------------------------------------------------------------------------
(* utils.TimeEntryManager *)

\* How a write of the entries file ends: it completes; open() raises and the
\* file is left as it was; or the write raises after open() truncated it.
WriteOutcomes == {"ok", "denied", "partial"}

\* The number of entries a mapping holds.
TotalEntries(map) ==
    LET keys == DOMAIN map
        RECURSIVE Count(_)
        Count(S) == IF S = {} THEN 0
                    ELSE LET k == CHOOSE x \in S : TRUE
                         IN Len(map[k]) + Count(S \ {k})
    IN Count(keys)

\* A variant of SaveEntries that merges: it keeps the entries the file holds
\* and the mapping does not.
SaveEntries_Merge(map, w) ==
    LET Old(k) == IF file.kind = "json" /\ k \in DOMAIN file.data
                  THEN file.data[k] ELSE <<>>
        New(k) == IF k \in DOMAIN map THEN EntriesToJson(map[k]) ELSE <<>>
        Keys == DOMAIN map \cup (IF file.kind = "json" THEN DOMAIN file.data ELSE {})
    IN CASE w = "ok" ->
              JsonFile([k \in Keys |->
                 New(k) \o SelectSeq(Old(k),
                    LAMBDA j : \A i \in 1..Len(New(k)) : New(k)[i] # j)])
         [] w = "denied"  -> file
         [] w = "partial" -> CorruptFile

\* save_entries: the file after writing the mapping, by how the write ends.
SaveEntries(map, w) ==
    CASE w = "ok"      -> JsonFile(ToDocument(map))
      [] w = "denied"  -> file
      [] w = "partial" -> CorruptFile

\* A variant of AddTotalHours that forgets the hours already stored.
AddTotalHours_NewOnly(bucket, e) == e.hours

\* add_entry, line 215: the total the admission check compares.
AddTotalHours(bucket, e) == SumHours(bucket) + e.hours

\* A variant of ExceedsLimit that also rejects a total equal to the cap.
ExceedsLimit_AtCap(total_hours, max_hours) == total_hours >= max_hours

\* add_entry, line 218: the admission check.
ExceedsLimit(total_hours, max_hours) == total_hours > max_hours

\* A variant of RemoveById that removes only the first matching entry.
RemoveById_FirstOnly(bucket, entry_id) ==
    LET hits == {i \in 1..Len(bucket) : bucket[i].id = entry_id}
    IN IF hits = {} THEN bucket
       ELSE LET i == CHOOSE x \in hits : \A y \in hits : x <= y
            IN SubSeq(bucket, 1, i - 1) \o SubSeq(bucket, i + 1, Len(bucket))

\* delete_entry, line 241: the list comprehension.
RemoveById(bucket, entry_id) ==
    SelectSeq(bucket, LAMBDA e : e.id # entry_id)

\* get_entries_for_date: self.entries.get(date_str, [])
EntriesForDate(map, d) ==
    IF IsoFormat(d) \in DOMAIN map THEN map[IsoFormat(d)] ELSE <<>>

RECURSIVE RangeLoop_Exclusive(_, _, _, _)
\* A variant of RangeLoop that stops before end_date.
RangeLoop_Exclusive(map, current_date, end_date, acc) ==
    IF current_date < end_date
    THEN RangeLoop_Exclusive(map, current_date + 1, end_date,
                             acc \o EntriesForDate(map, current_date))
    ELSE acc

RECURSIVE RangeLoop(_, _, _, _)
\* get_entries_for_range: the while loop from current_date to end_date.
RangeLoop(map, current_date, end_date, acc) ==
    IF current_date <= end_date
    THEN RangeLoop(map, current_date + 1, end_date,
                   acc \o EntriesForDate(map, current_date))
    ELSE acc

EntriesForRange(map, start_date, end_date) ==
    RangeLoop(map, start_date, end_date, <<>>)

\* __init__: self.entries = self.load_entries().  Also a restart of the app.
Construct(m) ==
    /\ LET loaded == LoadResult(file)
       IN IF loaded.raised
          THEN /\ constructed' = constructed \ {m}
               /\ UNCHANGED entries
          ELSE /\ entries' = [entries EXCEPT ![m] = loaded.value]
               /\ constructed' = constructed \cup {m}
    /\ last' = [op |-> "construct", mgr |-> m,
                raised |-> LoadResult(file).raised]
    /\ UNCHANGED <<config, file, everStored, acked, daily>>
    /\ UNCHANGED ccVars

\* TimeEntry(hours=h, ...) with the other fields valid.
NewTimeEntry(h) ==
    /\ last' = [op |-> "new_entry", mgr |-> Primary,
                raised |-> ~HoursValid(h), hours |-> h]
    /\ UNCHANGED <<config, entries, constructed, file, everStored, acked, daily>>
    /\ UNCHANGED ccVars

\* Another program, or the user, replaces the entries file.
EditDocument(f) ==
    /\ file' = f
    /\ last' = [op |-> "edit", mgr |-> Primary, raised |-> FALSE]
    /\ UNCHANGED <<config, entries, constructed, everStored, acked, daily>>
    /\ UNCHANGED ccVars

\* add_entry(entry), the write ending as w.
AddEntry(m, e, w) ==
    /\ m \in constructed
    /\ TotalEntries(entries[m]) < MaxEntries
    /\ LET date_str == IsoFormat(e.date)
           withBucket == IF date_str \in DOMAIN entries[m]
                         THEN entries[m]
                         ELSE entries[m] @@ (date_str :> <<>>)
           total_hours == AddTotalHours(withBucket[date_str], e)
           appended == [withBucket EXCEPT ![date_str] = Append(@, e)]
       IN IF ExceedsLimit(total_hours, MaxHoursPerDay)
          THEN /\ entries' = [entries EXCEPT ![m] = withBucket]
               /\ last' = [op |-> "add", mgr |-> m, raised |-> FALSE,
                           result |-> FALSE, entry |-> e]
               /\ UNCHANGED <<file, everStored, acked>>
          ELSE /\ entries' = [entries EXCEPT ![m] = appended]
               /\ file' = SaveEntries(appended, w)
               /\ last' = [op |-> "add", mgr |-> m, raised |-> (w # "ok"),
                           result |-> (w = "ok"), entry |-> e]
               /\ everStored' = everStored \cup {e.date}
               /\ acked' = IF w = "ok" THEN acked \cup {e} ELSE acked
    /\ UNCHANGED <<config, constructed, daily>>
    /\ UNCHANGED ccVars

\* delete_entry(entry_id, date), the write ending as w.
DeleteEntry(m, entry_id, d, w) ==
    /\ m \in constructed
    /\ LET date_str == IsoFormat(d)
       IN IF date_str \in DOMAIN entries[m]
          THEN LET kept == RemoveById(entries[m][date_str], entry_id)
                   map == [entries[m] EXCEPT ![date_str] = kept]
               IN /\ entries' = [entries EXCEPT ![m] = map]
                  /\ file' = SaveEntries(map, w)
                  /\ last' = [op |-> "delete", mgr |-> m,
                              raised |-> (w # "ok"), result |-> (w = "ok"),
                              id |-> entry_id, date |-> d,
                              removed |-> Len(entries[m][date_str]) - Len(kept)]
          ELSE /\ last' = [op |-> "delete", mgr |-> m, raised |-> FALSE,
                           result |-> FALSE, id |-> entry_id, date |-> d,
                           removed |-> 0]
               /\ UNCHANGED <<entries, file>>
    /\ acked' = {e \in acked : ~(e.id = entry_id /\ e.date = d)}
    /\ UNCHANGED <<config, constructed, everStored, daily>>
    /\ UNCHANGED ccVars

\* A variant of ClearAllEntries that persists the empty document and keeps
\* the mapping in memory.
ClearAllEntries_KeepsMemory(m, w) ==
    /\ m \in constructed
    /\ file' = SaveEntries(EmptyMap, w)
    /\ last' = [op |-> "clear", mgr |-> m, raised |-> FALSE,
                result |-> (w = "ok"), write |-> w]
    /\ UNCHANGED <<config, entries, constructed, everStored, acked, daily>>
    /\ UNCHANGED ccVars

\* clear_all_entries(): empties the store and persists the empty document;
\* returns whether the write succeeded, and changes nothing when it did not.
ClearAllEntries(m, w) ==
    /\ m \in constructed
    /\ IF w = "ok"
       THEN /\ entries' = [entries EXCEPT ![m] = EmptyMap]
            /\ acked' = {}
       ELSE UNCHANGED <<entries, acked>>
    /\ file' = SaveEntries(EmptyMap, w)
    /\ last' = [op |-> "clear", mgr |-> m, raised |-> FALSE,
                result |-> (w = "ok"), write |-> w]
    /\ UNCHANGED <<config, constructed, everStored, daily>>
    /\ UNCHANGED ccVars

\* get_entries_for_date(date)
GetEntriesForDate(m, d) ==
    /\ m \in constructed
    /\ last' = [op |-> "for_date", mgr |-> m, raised |-> FALSE, date |-> d,
                result |-> EntriesForDate(entries[m], d)]
    /\ UNCHANGED <<config, entries, constructed, file, everStored, acked, daily>>
    /\ UNCHANGED ccVars

\* get_entries_for_range(start_date, end_date)
GetEntriesForRange(m, start_date, end_date) ==
    /\ m \in constructed
    /\ last' = [op |-> "range", mgr |-> m, raised |-> FALSE,
                start |-> start_date, end |-> end_date,
                result |-> EntriesForRange(entries[m], start_date, end_date)]
    /\ UNCHANGED <<config, entries, constructed, file, everStored, acked, daily>>
    /\ UNCHANGED ccVars

----------------------------------------------------------------------------
(* models.DailyEntries *)

\* DailyEntries.recalculate_total
RecalculateTotal(seq) == SumHours(seq)

\* DailyEntries(date=d): no entries, total_hours 0.
NewDailyValue(d) ==
    [kind |-> "daily", date |-> d, entries |-> <<>>, total_hours |-> 0,
     alias |-> None]

\* A variant of SnapshotAlias in which the value keeps the list it was given.
SnapshotAlias_Shared(map, d) ==
    IF IsoFormat(d) \in DOMAIN map THEN Some(IsoFormat(d)) ELSE None

\* The bucket of the store whose list object the entries field of
\* DailyEntries(date=date, entries=entries) is: none, pydantic validates
\* the list it is given into a new list.
SnapshotAlias(map, d) == None

\* get_daily_entries: DailyEntries(date=date, entries=entries) holds its own
\* list of the entries (pydantic validates the list into a new one), and
\* recalculate_total() runs before it is returned.
DailySnapshot(map, d) ==
    [kind |-> "daily", date |-> d, entries |-> EntriesForDate(map, d),
     total_hours |-> RecalculateTotal(EntriesForDate(map, d)),
     alias |-> SnapshotAlias(map, d)]

\* DailyEntries.add_entry
DailyAfterAdd(dv, e) ==
    [dv EXCEPT !.entries = Append(dv.entries, e),
               !.total_hours = RecalculateTotal(Append(dv.entries, e))]

\* A variant of DailyAfterRemove that leaves total_hours as it was.
DailyAfterRemove_StaleTotal(dv, entry_id) ==
    [dv EXCEPT !.entries = RemoveById(dv.entries, entry_id)]

\* DailyEntries.remove_entry
DailyAfterRemove(dv, entry_id) ==
    [dv EXCEPT !.entries = RemoveById(dv.entries, entry_id),
               !.total_hours = RecalculateTotal(RemoveById(dv.entries, entry_id))]

\* A caller constructs DailyEntries(date=d).
NewDailyEntries(d) ==
    /\ daily = NoDaily
    /\ daily' = NewDailyValue(d)
    /\ last' = [op |-> "daily_new", mgr |-> Primary, raised |-> FALSE,
                date |-> d]
    /\ UNCHANGED <<config, entries, constructed, file, everStored, acked>>
    /\ UNCHANGED ccVars

\* get_daily_entries(date)
GetDailyEntries(m, d) ==
    /\ m \in constructed
    /\ daily = NoDaily
    /\ daily' = DailySnapshot(entries[m], d)
    /\ last' = [op |-> "daily", mgr |-> m, raised |-> FALSE, date |-> d]
    /\ UNCHANGED <<config, entries, constructed, file, everStored, acked>>
    /\ UNCHANGED ccVars

\* daily.add_entry(entry) on the value the caller holds.
DailyAddEntry(e) ==
    /\ daily # NoDaily
    /\ Len(daily.entries) < MaxEntries
    /\ daily' = DailyAfterAdd(daily, e)
    /\ IF daily.alias = None
       THEN UNCHANGED entries
       ELSE entries' = [entries EXCEPT ![Primary][daily.alias[1]] =
                                          Append(@, e)]
    /\ last' = [op |-> "daily_add", mgr |-> Primary, raised |-> FALSE,
                entry |-> e]
    /\ UNCHANGED <<config, constructed, file, everStored, acked>>
    /\ UNCHANGED ccVars

\* daily.remove_entry(entry_id) on the value the caller holds.
DailyRemoveEntry(entry_id) ==
    /\ daily # NoDaily
    /\ daily' = [DailyAfterRemove(daily, entry_id) EXCEPT !.alias = None]
    /\ last' = [op |-> "daily_remove", mgr |-> Primary, raised |-> FALSE,
                id |-> entry_id,
                removed |-> Len(daily.entries) - Len(daily'.entries)]
    /\ UNCHANGED <<config, entries, constructed, file, everStored, acked>>
    /\ UNCHANGED ccVars

\* The caller drops the value (the page is rendered again).
DiscardDaily ==
    /\ daily # NoDaily
    /\ daily' = NoDaily
    /\ last' = [op |-> "discard", mgr |-> Primary, raised |-> FALSE]
    /\ UNCHANGED <<config, entries, constructed, file, everStored, acked>>
    /\ UNCHANGED ccVars

----------------------------------------------------------------------------
(* models.WeeklySummary and get_weekly_summary *)

\* get_weekly_summary: week_end = week_start + timedelta(days=6)
WeekSpan == 6
\* A caller folds at most this many DailyEntries values into one summary.
MaxFolds == 3

\* d[k] = v on a dict
Put(f, k, v) == [x \in DOMAIN f \cup {k} |-> IF x = k THEN v ELSE f[x]]

\* sum(d.values())
SumValues(f) ==
    LET RECURSIVE Acc(_)
        Acc(S) == IF S = {} THEN 0
                  ELSE LET k == CHOOSE x \in S : TRUE
                       IN f[k] + Acc(S \ {k})
    IN Acc(DOMAIN f)

\* WeeklySummary(week_start=..., week_end=...)
NewWeeklySummary(week_start) ==
    [week_start |-> week_start, week_end |-> week_start + WeekSpan,
     total_hours |-> 0, entries_by_charge_code |-> <<>>,
     daily_totals |-> <<>>]

RECURSIVE FoldEntries(_, _)
\* add_daily_entries: the loop over daily.entries.
FoldEntries(by_code, seq) ==
    IF seq = <<>> THEN by_code
    ELSE LET entry == seq[1]
             cc == entry.charge_code_id
             had == IF cc \in DOMAIN by_code THEN by_code[cc]
                    ELSE [name |-> entry.charge_code_name, total_hours |-> 0,
                          entries |-> <<>>]
             now == [had EXCEPT !.total_hours = @ + entry.hours,
                                !.entries = Append(@, entry)]
         IN FoldEntries(Put(by_code, cc, now), Tail(seq))

\* WeeklySummary.add_daily_entries, with recalculate_total.
WeeklyAddDaily(summary, dv) ==
    LET totals == Put(summary.daily_totals, IsoFormat(dv.date), dv.total_hours)
    IN [summary EXCEPT
          !.daily_totals = totals,
          !.entries_by_charge_code = FoldEntries(@, dv.entries),
          !.total_hours = SumValues(totals)]

RECURSIVE WeekLoop_Exclusive(_, _, _, _)
\* A variant of WeekLoop that stops before week_end.
WeekLoop_Exclusive(map, summary, current_date, week_end) ==
    IF current_date < week_end
    THEN LET dv == DailySnapshot(map, current_date)
         IN WeekLoop_Exclusive(map,
               IF dv.entries # <<>> THEN WeeklyAddDaily(summary, dv) ELSE summary,
               current_date + 1, week_end)
    ELSE summary

RECURSIVE WeekLoop(_, _, _, _)
\* get_weekly_summary: the while loop from week_start to week_end.
WeekLoop(map, summary, current_date, week_end) ==
    IF current_date <= week_end
    THEN LET dv == DailySnapshot(map, current_date)
         IN WeekLoop(map,
               IF dv.entries # <<>> THEN WeeklyAddDaily(summary, dv) ELSE summary,
               current_date + 1, week_end)
    ELSE summary

WeeklySummaryOf(map, week_start) ==
    WeekLoop(map, NewWeeklySummary(week_start), week_start,
             week_start + WeekSpan)

\* get_weekly_summary(week_start)
GetWeeklySummary(m, week_start) ==
    /\ m \in constructed
    /\ last' = [op |-> "weekly", mgr |-> m, raised |-> FALSE,
                week_start |-> week_start,
                result |-> WeeklySummaryOf(entries[m], week_start)]
    /\ UNCHANGED <<config, entries, constructed, file, everStored, acked, daily>>
    /\ UNCHANGED ccVars

\* A caller constructs WeeklySummary(week_start=..., week_end=...).
NewSummary(week_start) ==
    /\ last' = [op |-> "summary_new", mgr |-> Primary, raised |-> FALSE,
                week_start |-> week_start,
                result |-> NewWeeklySummary(week_start), folded |-> <<>>]
    /\ UNCHANGED <<config, entries, constructed, file, everStored, acked, daily>>
    /\ UNCHANGED ccVars

\* summary.add_daily_entries(store.get_daily_entries(d)) on the summary the
\* caller got from the last call; folded lists the values folded so far.
FoldDaily(d) ==
    /\ last.op \in {"summary_new", "fold"}
    /\ Len(last.folded) < MaxFolds
    /\ LET dv == DailySnapshot(entries[Primary], d)
       IN last' = [op |-> "fold", mgr |-> Primary, raised |-> FALSE,
                   week_start |-> last.week_start,
                   result |-> WeeklyAddDaily(last.result, dv),
                   folded |-> Append(last.folded, dv)]
    /\ UNCHANGED <<config, entries, constructed, file, everStored, acked, daily>>
    /\ UNCHANGED ccVars

----------------------------------------------------------------------------
(* models.ChargeCode and utils.ChargeCodeManager *)

\* load_charge_codes is not called once uuid4 has issued this many
\* charge-code identifiers.
MaxIssued == 5
\* File modification times range over 1..MaxTime.
MaxTime == 2

\* The value of an optional attribute of a ChargeCode: unset, a string, or
\* a float.
AttrNone == [kind |-> "none", text |-> "", num |-> 0]
AttrStr(s) == [kind |-> "str", text |-> s, num |-> 0]
AttrFloat(n) == [kind |-> "float", text |-> "", num |-> n]

\* A cell pandas read as text: a body with leading and trailing blanks.
\* A cell pandas read as missing (NaN) is None.
Cell(lead, body, trail) == Some([lead |-> lead, body |-> body, trail |-> trail])

\* str(value).strip()
Strip(c) == c.body

\* float(text) as pydantic converts a string: the texts that are numbers.
FloatOf == ("50" :> 50) @@ ("25" :> 25)

\* str.lower() on the words of the headers.
Lower(w) ==
    CASE w = "Project" -> "project"
      [] w = "Name" -> "name"
      [] w = "Percent" -> "percent"
      [] w = "Task" -> "task"
      [] OTHER -> w

RECURSIVE JoinWords(_)
\* The lowercased words of a header joined by underscores.
JoinWords(words) ==
    IF Len(words) = 1 THEN Lower(words[1])
    ELSE Lower(words[1]) \o "_" \o JoinWords(Tail(words))

\* df.columns.str.strip().str.lower().str.replace(' ', '_') on one header,
\* a header being words separated by single blanks, with blanks around.
NormalizeHeader(h) == JoinWords(h.words)

Header(lead, words, trail) == [lead |-> lead, words |-> words, trail |-> trail]

H(word) == Header(0, <<word>>, 0)

\* The fixture of the tests: friendly_name, project, task, the second row
\* with blanks around its name and no task.
TablePlain ==
    [headers |-> <<H("friendly_name"), H("project"), H("task")>>,
     rows |-> << <<Cell(0, "Alpha", 0), Cell(0, "P-1", 0), Cell(0, "Dev", 0)>>,
                 <<Cell(1, "Beta", 1), Cell(0, "P-2", 0), None>> >>]

\* Two aliases of friendly_name side by side and a numeric percent; the
\* second row has no value under the earlier alias.
TableAliases ==
    [headers |-> <<Header(0, <<"Project", "Name">>, 0),
                   Header(1, <<"Name">>, 1), H("Percent")>>,
     rows |-> << <<Cell(0, "Gamma", 0), Cell(0, "Alpha", 0), Cell(1, "25", 1)>>,
                 <<Cell(0, "Gamma", 0), None, None>> >>]

\* A row without a name, a row whose name is blanks only, a named row.
TableBlank ==
    [headers |-> <<H("Name"), H("Task")>>,
     rows |-> << <<None, Cell(0, "Dev", 0)>>,
                 <<Cell(3, "", 0), None>>,
                 <<Cell(0, "Alpha", 0), Cell(0, "Dev", 0)>> >>]

\* Percent written as text with a percent sign.
TablePercent ==
    [headers |-> <<H("friendly_name"), H("%")>>,
     rows |-> << <<Cell(0, "Beta", 0), Cell(0, "50", 0)>>,
                 <<Cell(0, "Alpha", 0), Cell(0, "50%", 0)>> >>]

\* A spreadsheet whose only header is Project Name.
TableProjectName ==
    [headers |-> <<Header(0, <<"Project", "Name">>, 0)>>,
     rows |-> << <<Cell(0, "Gamma", 0)>> >>]

\* The table pandas reads from a file, by the file's content.
TableOf(content) ==
    CASE content = "plain" -> TablePlain
      [] content = "aliases" -> TableAliases
      [] content = "blank" -> TableBlank
      [] content = "percent" -> TablePercent
      [] content = "project-name" -> TableProjectName

\* column_mapping, in its order.
ColumnMapping ==
    << [field |-> "friendly_name",
        names |-> <<"friendly_name", "name", "project_name", "task_name">>],
       [field |-> "percent", names |-> <<"percent", "percentage", "%">>],
       [field |-> "task_source",
        names |-> <<"task_source", "task source", "source">>],
       [field |-> "task", names |-> <<"task">>],
       [field |-> "sub_task", names |-> <<"sub_task", "subtask", "sub task">>],
       [field |-> "operating_unit",
        names |-> <<"operating_unit", "operating unit", "unit">>],
       [field |-> "process", names |-> <<"process">>],
       [field |-> "project", names |-> <<"project", "project_code">>],
       [field |-> "activity", names |-> <<"activity">>],
       [field |-> "customer_segment",
        names |-> <<"customer_segment", "customer segment", "segment">>] >>

Fields == { ColumnMapping[i].field : i \in DOMAIN ColumnMapping }
OptionalFields == Fields \ {"friendly_name"}
AliasesOf(field) ==
    LET i == CHOOSE j \in DOMAIN ColumnMapping : ColumnMapping[j].field = field
    IN ColumnMapping[i].names

\* col_name in df.columns
HasColumn(table, col_name) ==
    \E i \in DOMAIN table.headers : NormalizeHeader(table.headers[i]) = col_name

\* row[col_name]
CellOf(table, row, col_name) ==
    row[CHOOSE i \in DOMAIN table.headers :
           NormalizeHeader(table.headers[i]) = col_name]

RECURSIVE ScanAliases_PresentOnly(_, _, _, _)
\* A variant of ScanAliases that stops at the first alias whose column is
\* present, whatever its cell.
ScanAliases_PresentOnly(table, row, names, i) ==
    IF i > Len(names) THEN None
    ELSE IF HasColumn(table, names[i])
         THEN IF CellOf(table, row, names[i]) # None
              THEN Some(Strip(CellOf(table, row, names[i])[1]))
              ELSE None
         ELSE ScanAliases_PresentOnly(table, row, names, i + 1)

RECURSIVE ScanAliases(_, _, _, _)
\* for col_name in possible_names: the first alias whose column is present
\* and whose cell is not missing gives the value, stripped.
ScanAliases(table, row, names, i) ==
    IF i > Len(names) THEN None
    ELSE IF HasColumn(table, names[i]) /\ CellOf(table, row, names[i]) # None
         THEN Some(Strip(CellOf(table, row, names[i])[1]))
         ELSE ScanAliases(table, row, names, i + 1)

\* charge_code_data of a row; None stands for a key the dict lacks.
ChargeCodeData(table, row) ==
    [f \in Fields |-> ScanAliases(table, row, AliasesOf(f), 1)]

\* Whether ChargeCode(**data) validates: percent must convert to a float.
Validates(data) ==
    data["percent"] = None \/ data["percent"][1] \in DOMAIN FloatOf

TextAttr(v) == IF v = None THEN AttrNone ELSE AttrStr(v[1])

\* ChargeCode(**data) for data that validates, with the id uuid4 gave.
NewChargeCode(id, data) ==
    [id |-> id,
     friendly_name |-> data["friendly_name"][1],
     percent |-> IF data["percent"] = None THEN AttrNone
                 ELSE AttrFloat(FloatOf[data["percent"][1]]),
     task_source |-> TextAttr(data["task_source"]),
     task |-> TextAttr(data["task"]),
     sub_task |-> TextAttr(data["sub_task"]),
     operating_unit |-> TextAttr(data["operating_unit"]),
     process |-> TextAttr(data["process"]),
     project |-> TextAttr(data["project"]),
     activity |-> TextAttr(data["activity"]),
     customer_segment |-> TextAttr(data["customer_segment"])]

\* A variant of FreshId that hands out two identifiers in turn.
FreshId_Recycled(count) == [uuid |-> (count % 2) + 1]

\* str(uuid.uuid4()): an identifier no earlier call returned, count being
\* the number of identifiers issued so far.
FreshId(count) == [uuid |-> count + 1]

RECURSIVE BuildRows(_, _, _, _)
\* The loop over df.iterrows(), from row i on: whether a ChargeCode
\* construction raised, the list built, and the identifiers issued.
BuildRows(table, i, acc, count) ==
    IF i > Len(table.rows)
    THEN [raised |-> FALSE, codes |-> acc, issued |-> count]
    ELSE LET data == ChargeCodeData(table, table.rows[i])
         IN IF data["friendly_name"] = None
            THEN BuildRows(table, i + 1, acc, count)
            ELSE IF ~Validates(data)
                 THEN [raised |-> TRUE, codes |-> acc, issued |-> count]
                 ELSE BuildRows(table, i + 1,
                                Append(acc, NewChargeCode(FreshId(count), data)),
                                count + 1)

\* Path(file_path).suffix.lower()
Suffix(path) ==
    CASE path = "a.csv" -> ".csv"
      [] path = "b.xlsx" -> ".xlsx"
      [] path = "c.txt" -> ".txt"

\* A variant of ExtSupported that lets pandas try any file.
ExtSupported_Any(file_ext) == TRUE

\* file_ext in ['.xlsx', '.xls'] or file_ext == '.csv'
ExtSupported(file_ext) == file_ext \in {".xlsx", ".xls", ".csv"}

\* A variant of NewCollection that keeps the records of earlier loads.
NewCollection_Append(old, built) == old \o built

\* self.charge_codes = charge_codes
NewCollection(old, built) == built

\* load_charge_codes(file_path) in the current state: the exception raised,
\* the list returned, and the state it leaves.
LoadOutcome(path) ==
    IF path \notin DOMAIN dir
    THEN [exc |-> "none", loaded |-> FALSE, result |-> <<>>,
          codes |-> charge_codes, modified |-> last_modified,
          issued |-> issued]
    ELSE IF ~ExtSupported(Suffix(path))
    THEN [exc |-> "ValueError", loaded |-> FALSE, result |-> <<>>,
          codes |-> charge_codes, modified |-> last_modified,
          issued |-> issued]
    ELSE LET built == BuildRows(TableOf(dir[path].content), 1, <<>>, issued)
         IN IF built.raised
            THEN [exc |-> "ValidationError", loaded |-> FALSE,
                  result |-> <<>>, codes |-> charge_codes,
                  modified |-> last_modified, issued |-> built.issued]
            ELSE [exc |-> "none", loaded |-> TRUE, result |-> built.codes,
                  codes |-> NewCollection(charge_codes, built.codes),
                  modified |-> Some(dir[path].mtime),
                  issued |-> built.issued]

\* Whether a load of path stays within the identifiers the model issues.
WithinIssued(path) ==
    path \in DOMAIN dir =>
       issued + Len(TableOf(dir[path].content).rows) <= MaxIssued

\* load_charge_codes(file_path)
LoadChargeCodes(path) ==
    /\ WithinIssued(path)
    /\ \E out \in {LoadOutcome(path)} :
          /\ charge_codes' = out.codes
          /\ last_modified' = out.modified
          /\ issued' = out.issued
          /\ last' = [op |-> "load", mgr |-> Primary,
                      raised |-> (out.exc # "none"), exc |-> out.exc,
                      path |-> path, loaded |-> out.loaded,
                      result |-> out.result, replaced |-> charge_codes]
    /\ UNCHANGED <<config, entries, constructed, file, everStored, acked, daily>>
    /\ UNCHANGED dir

\* files.charge_code_patterns, by default *.xlsx, *.xls, *.csv
Patterns == <<".xlsx", ".xls", ".csv">>

RECURSIVE AllFiles(_, _)
\* all_files: for each pattern in turn, the files of the directory it
\* matches (the directory holds at most one file per pattern).
AllFiles(d, i) ==
    IF i > Len(Patterns) THEN <<>>
    ELSE LET hit == { n \in DOMAIN d : Suffix(n) = Patterns[i] }
         IN (IF hit = {} THEN <<>> ELSE <<CHOOSE n \in hit : TRUE>>)
               \o AllFiles(d, i + 1)

RECURSIVE MaxByMtime_Oldest(_, _, _)
\* A variant of MaxByMtime that keeps the file of least mtime.
MaxByMtime_Oldest(d, files, best) ==
    IF files = <<>> THEN best
    ELSE MaxByMtime_Oldest(d, Tail(files),
                    IF d[files[1]].mtime < d[best].mtime THEN files[1] ELSE best)

RECURSIVE MaxByMtime(_, _, _)
\* max(all_files, key=os.path.getmtime): the first file of greatest mtime.
MaxByMtime(d, files, best) ==
    IF files = <<>> THEN best
    ELSE MaxByMtime(d, Tail(files),
                    IF d[files[1]].mtime > d[best].mtime THEN files[1] ELSE best)

\* find_charge_code_file()
FindChargeCodeFile(d) ==
    LET all_files == AllFiles(d, 1)
    IN IF all_files = <<>> THEN None
       ELSE Some(MaxByMtime(d, Tail(all_files), all_files[1]))

\* find_charge_code_file(), called by the application.
FindFile ==
    /\ last' = [op |-> "find", mgr |-> Primary, raised |-> FALSE,
                result |-> FindChargeCodeFile(dir)]
    /\ UNCHANGED <<config, entries, constructed, file, everStored, acked, daily>>
    /\ UNCHANGED ccVars

\* refresh_if_needed()
RefreshIfNeeded ==
    /\ LET file_path == FindChargeCodeFile(dir)
       IN IF file_path = None
          THEN /\ last' = [op |-> "refresh", mgr |-> Primary, raised |-> FALSE,
                           exc |-> "none", loaded |-> FALSE, result |-> FALSE,
                           replaced |-> charge_codes]
               /\ UNCHANGED <<charge_codes, last_modified, issued>>
          ELSE IF \/ last_modified = None
                  \/ dir[file_path[1]].mtime > last_modified[1]
          THEN /\ WithinIssued(file_path[1])
               /\ \E out \in {LoadOutcome(file_path[1])} :
                     /\ charge_codes' = out.codes
                     /\ last_modified' = out.modified
                     /\ issued' = out.issued
                     /\ last' = [op |-> "refresh", mgr |-> Primary,
                                 raised |-> (out.exc # "none"),
                                 exc |-> out.exc, path |-> file_path[1],
                                 loaded |-> out.loaded,
                                 result |-> (out.exc = "none"),
                                 replaced |-> charge_codes]
          ELSE /\ last' = [op |-> "refresh", mgr |-> Primary, raised |-> FALSE,
                           exc |-> "none", loaded |-> FALSE, result |-> FALSE,
                           replaced |-> charge_codes]
               /\ UNCHANGED <<charge_codes, last_modified, issued>>
    /\ UNCHANGED <<config, entries, constructed, file, everStored, acked, daily>>
    /\ UNCHANGED dir

RECURSIVE Lookup(_, _)
\* get_charge_code_by_id: the first record of the list with that id.
Lookup(codes, charge_code_id) ==
    IF codes = <<>> THEN None
    ELSE IF codes[1].id = charge_code_id THEN Some(codes[1])
         ELSE Lookup(Tail(codes), charge_code_id)

\* get_charge_code_by_id(charge_code_id)
GetChargeCodeById(charge_code_id) ==
    /\ last' = [op |-> "lookup", mgr |-> Primary, raised |-> FALSE,
                id |-> charge_code_id,
                result |-> Lookup(charge_codes, charge_code_id)]
    /\ UNCHANGED <<config, entries, constructed, file, everStored, acked, daily>>
    /\ UNCHANGED ccVars

\* The user puts a file into the charge-codes directory, or replaces one.
WriteFile(name, mtime, content) ==
    /\ dir' = Put(dir, name, [mtime |-> mtime, content |-> content])
    /\ last' = [op |-> "fs", mgr |-> Primary, raised |-> FALSE]
    /\ UNCHANGED <<config, entries, constructed, file, everStored, acked, daily>>
    /\ UNCHANGED <<charge_codes, last_modified, issued>>

\* The user removes a file from the charge-codes directory.
RemoveFile(name) ==
    /\ name \in DOMAIN dir
    /\ dir' = [n \in DOMAIN dir \ {name} |-> dir[n]]
    /\ last' = [op |-> "fs", mgr |-> Primary, raised |-> FALSE]
    /\ UNCHANGED <<config, entries, constructed, file, everStored, acked, daily>>
    /\ UNCHANGED <<charge_codes, last_modified, issued>>

----------------------------------------------------------------------------
(* export_to_csv and export_to_excel *)

\* A date in a cell of an exported sheet.
DateCell(d) == [kind |-> "date", text |-> "", num |-> d]

\* entry.notes or ''
NotesOrEmpty(notes) == IF notes = None THEN "" ELSE notes[1]

\* The keys row.update adds, with the ChargeCode attribute each one carries.
ExportAttributes ==
    ("Percent" :> "percent") @@ ("Task Source" :> "task_source")
      @@ ("Task" :> "task") @@ ("SubTask" :> "sub_task")
      @@ ("Operating Unit" :> "operating_unit") @@ ("Process" :> "process")
      @@ ("Project" :> "project") @@ ("Activity" :> "activity")
      @@ ("Customer Segment" :> "customer_segment")

\* The four keys every row of export_to_excel has.
ExcelBase(entry) ==
    ("Date" :> DateCell(entry.date))
      @@ ("Friendly Name" :> AttrStr(entry.charge_code_name))
      @@ ("Hours" :> AttrFloat(entry.hours))
      @@ ("Notes" :> AttrStr(NotesOrEmpty(entry.notes)))

\* A variant of ExcelRow that resolves the charge code by the stored name.
ExcelRow_ByName(entry, codes) ==
    LET named == { i \in DOMAIN codes :
                     codes[i].friendly_name = entry.charge_code_name }
        charge_code == IF named = {} THEN None
                       ELSE Some(codes[CHOOSE i \in named :
                                          \A j \in named : i <= j])
    IN IF charge_code # None
       THEN [c \in DOMAIN ExportAttributes |->
                charge_code[1][ExportAttributes[c]]] @@ ExcelBase(entry)
       ELSE ExcelBase(entry)

\* export_to_excel: the row dict of one entry.
ExcelRow(entry, codes) ==
    LET charge_code == Lookup(codes, entry.charge_code_id)
    IN IF charge_code # None
       THEN [c \in DOMAIN ExportAttributes |->
                charge_code[1][ExportAttributes[c]]] @@ ExcelBase(entry)
       ELSE ExcelBase(entry)

\* export_to_csv: the row dict of one entry.
CsvRow(entry) ==
    ("Date" :> DateCell(entry.date))
      @@ ("Charge Code" :> AttrStr(entry.charge_code_name))
      @@ ("Hours" :> AttrFloat(entry.hours))
      @@ ("Notes" :> AttrStr(NotesOrEmpty(entry.notes)))

\* pd.DataFrame(data) as written to the file: the columns are the keys of
\* the rows, and a row lacking a key has a blank cell.
DataFrame(data) ==
    LET cols == UNION { DOMAIN data[i] : i \in DOMAIN data }
    IN [columns |-> cols,
        rows |-> [i \in DOMAIN data |->
                    [c \in cols |-> IF c \in DOMAIN data[i] THEN data[i][c]
                                    ELSE AttrNone]]]

\* export_to_excel(start_date, end_date, file_path, charge_code_manager)
ExportToExcel(m, start_date, end_date) ==
    /\ m \in constructed
    /\ LET range == EntriesForRange(entries[m], start_date, end_date)
       IN last' = [op |-> "export_excel", mgr |-> m, raised |-> FALSE,
                   start |-> start_date, end |-> end_date,
                   result |-> DataFrame([i \in DOMAIN range |->
                                           ExcelRow(range[i], charge_codes)])]
    /\ UNCHANGED <<config, entries, constructed, file, everStored, acked, daily>>
    /\ UNCHANGED ccVars

\* export_to_csv(start_date, end_date, file_path)
ExportToCsv(m, start_date, end_date) ==
    /\ m \in constructed
    /\ LET range == EntriesForRange(entries[m], start_date, end_date)
       IN last' = [op |-> "export_csv", mgr |-> m, raised |-> FALSE,
                   start |-> start_date, end |-> end_date,
                   result |-> DataFrame([i \in DOMAIN range |->
                                           CsvRow(range[i])])]
    /\ UNCHANGED <<config, entries, constructed, file, everStored, acked, daily>>
    /\ UNCHANGED ccVars

\* The entry the add form builds for a charge code of the selection.
EntryFor(d, id, cc) ==
    MkEntry(d, [id |-> id, hours |-> 8, charge_code_id |-> cc.id,
                charge_code_name |-> cc.friendly_name, notes |-> None])

----------------------------------------------------------------------------
(* utils.get_week_dates; day ordinals are date.toordinal(): day 1 is       *)
(* 0001-01-01, a Monday, and date.max is 9999-12-31, a Friday.            *)

\* date.max.toordinal(): date + timedelta raises OverflowError beyond it.
DateMax == 3652059

\* A variant of Weekday that counts from Sunday.
Weekday_FromSunday(d) == d % 7

\* date.weekday(): 0 for Monday .. 6 for Sunday.
Weekday(d) == (d + 6) % 7

\* get_week_dates(date): whether it raises, and the pair it returns.
WeekDates(d) ==
    LET days_since_monday == Weekday(d)
        week_start == d - days_since_monday
    IN IF week_start + 6 > DateMax
       THEN [raised |-> TRUE, value |-> <<>>]
       ELSE [raised |-> FALSE, value |-> <<week_start, week_start + 6>>]

\* get_week_dates(date), called by the application.
GetWeekDates(d) ==
    /\ last' = [op |-> "week", mgr |-> Primary,
                raised |-> WeekDates(d).raised, date |-> d,
                result |-> WeekDates(d).value]
    /\ UNCHANGED <<config, entries, constructed, file, everStored, acked, daily>>
    /\ UNCHANGED ccVars

----------------------------------------------------------------------------
(* One store instance, writes that complete *)

Next ==
    \/ \E e \in EntryInputs : AddEntry(Primary, e, "ok")
    \/ \E id \in Ids, d \in Dates : DeleteEntry(Primary, id, d, "ok")
    \/ ClearAllEntries(Primary, "ok")
    \/ Construct(Primary)
    \/ \E d \in Dates : GetEntriesForDate(Primary, d)
    \/ \E s \in Dates, e \in Dates : GetEntriesForRange(Primary, s, e)

Spec == Init /\ [][Next]_vars

----------------------------------------------------------------------------
(* One store instance, writes that may fail *)

\* The calls made while writes may fail all concern the first day.
IOInputs == {e \in EntryInputs : e.date = 1}

NextIO ==
    \/ \E e \in IOInputs, w \in WriteOutcomes : AddEntry(Primary, e, w)
    \/ \E id \in Ids, w \in WriteOutcomes : DeleteEntry(Primary, id, 1, w)
    \/ \E w \in WriteOutcomes : ClearAllEntries(Primary, w)
    \/ Construct(Primary)

SpecIO == Init /\ [][NextIO]_vars

----------------------------------------------------------------------------
(* Two store instances (two processes, or two sessions of the app) on the  *)
(* same entries file; each call runs to completion, no locking.            *)

ConcInputs == {e \in EntryInputs : e.date = 1 /\ e.hours = 8}

NextConc ==
    \/ \E m \in Managers : Construct(m)
    \/ \E m \in Managers, e \in ConcInputs : AddEntry(m, e, "ok")
    \/ \E m \in Managers, id \in Ids : DeleteEntry(m, id, 1, "ok")

SpecConc == Init /\ [][NextConc]_vars

----------------------------------------------------------------------------
(* One store instance and one DailyEntries value at a time: the caller     *)
(* drops the value before its next call of the store.  The store calls     *)
(* concern the first day.                                                  *)

NextDaily ==
    \/ daily = NoDaily /\ \E e \in IOInputs : AddEntry(Primary, e, "ok")
    \/ daily = NoDaily /\ \E id \in Ids : DeleteEntry(Primary, id, 1, "ok")
    \/ \E d \in Dates : GetDailyEntries(Primary, d)
    \/ \E d \in Dates : NewDailyEntries(d)
    \/ \E e \in IOInputs : DailyAddEntry(e)
    \/ \E id \in Ids : DailyRemoveEntry(id)
    \/ DiscardDaily

SpecDaily == Init /\ [][NextDaily]_vars

----------------------------------------------------------------------------
(* One store instance and its weekly summaries: the weeks asked for start  *)
(* from six days before the first day to the last day.                     *)

WeekStarts == (1 - WeekSpan)..NumDates

NextWeekly ==
    \/ \E e \in EntryInputs : AddEntry(Primary, e, "ok")
    \/ \E id \in Ids, d \in Dates : DeleteEntry(Primary, id, d, "ok")
    \/ \E ws \in WeekStarts : GetWeeklySummary(Primary, ws)

SpecWeekly == Init /\ [][NextWeekly]_vars

----------------------------------------------------------------------------
(* One store instance restarted over documents it did not write *)

\* The hours callers try to construct a TimeEntry with.
HoursChoices == {0, 1, 24, 25}

\* Entries as found in documents: valid ones (one of 24 hours), ones whose
\* hours are out of range, and one whose date does not parse.
DocEntries ==
    LET ok == EntryToJson(MkEntry(1, CHOOSE t \in Templates :
                                        t.id = "id-1" /\ t.hours = 8))
    IN { ok, [ok EXCEPT !.id = "id-2", !.hours = 24],
         [ok EXCEPT !.hours = 0], [ok EXCEPT !.id = "id-2", !.hours = 25],
         [ok EXCEPT !.date = NotADate] }

\* The valid document entry of 8 hours.
DocEntryOk == CHOOSE j \in DocEntries : j.hours = 8 /\ j.date = IsoFormat(1)

\* Lists of at most two document entries, the valid entry among two.
DocLists ==
    {<<>>} \cup { <<a>> : a \in DocEntries }
           \cup { <<DocEntryOk, b>> : b \in DocEntries }
           \cup { <<a, DocEntryOk>> : a \in DocEntries }

\* The states of the entries file an outside edit leaves.
Documents ==
    {NoFile, UnreadableFile, CorruptFile, NotObjectFile}
      \cup { JsonFile(IsoFormat(1) :> l) : l \in DocLists }
      \cup { JsonFile((IsoFormat(1) :> <<DocEntryOk>>) @@ (IsoFormat(2) :> <<b>>)) :
                b \in DocEntries }

NextLoad ==
    \/ \E f \in Documents : EditDocument(f)
    \/ Construct(Primary)
    \/ \E h \in HoursChoices : NewTimeEntry(h)
    \/ \E e \in IOInputs : AddEntry(Primary, e, "ok")

SpecLoad == Init /\ [][NextLoad]_vars

----------------------------------------------------------------------------
(* The charge-code repository over a directory the user edits *)

FileNames == {"a.csv", "b.xlsx", "c.txt"}

\* What the user may put under each name.
FileChoices(name) ==
    CASE name = "a.csv" ->
            { [mtime |-> t, content |-> c] : t \in 1..MaxTime,
              c \in {"plain", "aliases", "blank", "percent"} }
      [] name = "b.xlsx" ->
            { [mtime |-> t, content |-> "project-name"] : t \in 1..MaxTime }
      [] name = "c.txt" -> { [mtime |-> MaxTime + 1, content |-> "plain"] }

LookupIds == { [uuid |-> n] : n \in 0..MaxIssued }

NextCC ==
    \/ \E name \in FileNames : \E f \in FileChoices(name) :
          WriteFile(name, f.mtime, f.content)
    \/ \E name \in FileNames : RemoveFile(name)
    \/ \E path \in FileNames : LoadChargeCodes(path)
    \/ RefreshIfNeeded
    \/ FindFile
    \/ \E id \in LookupIds : GetChargeCodeById(id)

\* config.toml leaves files.charge_code_patterns at its default.
InitCC == Init /\ config = <<>>

SpecCC == InitCC /\ [][NextCC]_vars

----------------------------------------------------------------------------
(* Entries logged against loaded charge codes, then exported *)

ExportDates == 1..2

NextExport ==
    \/ \E c \in {"plain", "aliases"} : WriteFile("a.csv", 1, c)
    \/ LoadChargeCodes("a.csv")
    \/ \E i \in DOMAIN charge_codes, d \in ExportDates :
          AddEntry(Primary, EntryFor(d, "id-1", charge_codes[i]), "ok")
    \/ \E s \in ExportDates, e \in ExportDates : ExportToExcel(Primary, s, e)
    \/ \E s \in ExportDates, e \in ExportDates : ExportToCsv(Primary, s, e)

SpecExport == InitCC /\ [][NextExport]_vars

----------------------------------------------------------------------------
(* get_week_dates over the first days, the days around 2025-01-08 and the  *)
(* last days of the calendar.                                              *)

WeekInputs == (1..40) \cup (739240..739280) \cup ((DateMax - 40)..DateMax)

NextWeek == \E d \in WeekInputs : GetWeekDates(d)

SpecWeek == Init /\ [][NextWeek]_vars

----------------------------------------------------------------------------
(* One store instance, its queries and exports, and the DailyEntries value *)
(* a caller got from it                                                    *)

NextQuery ==
    \/ daily = NoDaily /\ \E e \in IOInputs : AddEntry(Primary, e, "ok")
    \/ \E d \in Dates : GetDailyEntries(Primary, d)
    \/ \E e \in IOInputs : DailyAddEntry(e)
    \/ \E id \in Ids : DailyRemoveEntry(id)
    \/ DiscardDaily
    \/ daily = NoDaily /\ \E d \in Dates : GetEntriesForDate(Primary, d)
    \/ daily = NoDaily /\ \E s \in ExportDates, e \in ExportDates :
          GetEntriesForRange(Primary, s, e)
    \/ daily = NoDaily /\ \E ws \in {1 - WeekSpan, 1} :
          GetWeeklySummary(Primary, ws)
    \/ daily = NoDaily /\ \E s \in ExportDates, e \in ExportDates :
          ExportToCsv(Primary, s, e)
    \/ daily = NoDaily /\ \E s \in ExportDates, e \in ExportDates :
          ExportToExcel(Primary, s, e)

SpecQuery == Init /\ [][NextQuery]_vars

----------------------------------------------------------------------------
(* A WeeklySummary a caller folds days of the store into *)

NextFold ==
    \/ \E e \in { x \in EntryInputs : x.date <= 2 } : AddEntry(Primary, e, "ok")
    \/ NewSummary(1)
    \/ \E d \in Dates : FoldDaily(d)
    \/ GetWeeklySummary(Primary, 1)

SpecFold == Init /\ [][NextFold]_vars

----------------------------------------------------------------------------
(* Properties *)

\* The daily cap: features.max_hours_per_day, 24 when the setting is absent.
DailyCap ==
    IF "features.max_hours_per_day" \in DOMAIN config
    THEN config["features.max_hours_per_day"] ELSE 24

\* The bucket a mapping holds for a day; empty when it holds none.
BucketOf(map, d) ==
    IF IsoFormat(d) \in DOMAIN map THEN map[IsoFormat(d)] ELSE <<>>

\* C1: starting from an empty store with a fixed cap, after any sequence of
\* add and delete calls the hours stored under each date sum to at most the
\* cap.
C1_DailyTotalWithinCap ==
    \A m \in constructed : \A k \in DOMAIN entries[m] :
        SumHours(entries[m][k]) <= DailyCap

\* C1 witness: an add was rejected on a date whose stored entries, two or
\* more, sum exactly to the cap.
C1_Witness ==
    /\ last.op = "add" /\ ~last.result /\ ~last.raised
    /\ Len(BucketOf(entries[last.mgr], last.entry.date)) >= 2
    /\ SumHours(BucketOf(entries[last.mgr], last.entry.date)) = DailyCap

\* C2: add returns False exactly when the hours stored for entry.date plus
\* entry.hours exceed the cap; otherwise (a total equal to the cap included)
\* it returns True, the entry is the last element of that date's bucket and
\* the persisted document holds it.
C2_AddAdmission ==
    [][ last'.op = "add" =>
          LET e == last'.entry
              m == last'.mgr
              k == IsoFormat(e.date)
              before == BucketOf(entries[m], e.date)
              over == SumHours(before) + e.hours > DailyCap
          IN /\ ~last'.raised
             /\ last'.result = ~over
             /\ ~over =>
                  /\ entries'[m][k] = Append(before, e)
                  /\ file'.kind = "json"
                  /\ k \in DOMAIN file'.data
                  /\ Len(file'.data[k]) = Len(before) + 1
                  /\ LET j == file'.data[k][Len(file'.data[k])]
                     IN /\ j.id = e.id
                        /\ j.hours = e.hours
                        /\ j.charge_code_id = e.charge_code_id
                        /\ j.charge_code_name = e.charge_code_name
                        /\ j.date = k
       ]_vars

\* C2 witness: an add returned True and brought a bucket of two or more
\* entries exactly to the cap.
C2_Witness ==
    /\ last.op = "add" /\ last.result
    /\ Len(BucketOf(entries[last.mgr], last.entry.date)) >= 2
    /\ SumHours(BucketOf(entries[last.mgr], last.entry.date)) = DailyCap

\* C3: an add that returns False leaves the in-memory mapping as it was:
\* the same date keys and the same buckets.
C3_FailedAddLeavesMapping ==
    [][ (last'.op = "add" /\ ~last'.raised /\ ~last'.result)
          => entries' = entries ]_vars

\* C4: add, delete and clear_all are atomic with respect to the write: when
\* the write fails the in-memory mapping is as it was before the call, and
\* when the call returns True the persisted document holds the mapping the
\* store now holds.
C4_FailedWriteLeavesMapping ==
    [][ /\ (\/ last'.op \in {"add", "delete"} /\ last'.raised
            \/ last'.op = "clear" /\ ~last'.result)
             => entries' = entries
        /\ (last'.op \in {"add", "delete", "clear"} /\ ~last'.raised
              /\ last'.result)
             => /\ file'.kind = "json"
                /\ LoadEntries(file') = entries'[last'.mgr]
      ]_vars

\* new is old with every entry whose identifier is entry_id removed and the
\* others kept in their order.
IsRemovalOf(new, old, entry_id) ==
    \E f \in [1..Len(new) -> 1..Len(old)] :
       /\ \A i \in 1..Len(new) : \A j \in 1..Len(new) : i < j => f[i] < f[j]
       /\ \A i \in 1..Len(new) : new[i] = old[f[i]]
       /\ \A p \in 1..Len(old) :
             (\E i \in 1..Len(new) : f[i] = p) <=> old[p].id # entry_id

\* C5: delete(entry_id, date) leaves in that date's bucket the previous
\* entries with another identifier, in their order, and leaves every other
\* bucket and the set of date keys as they were; entries_for_date(date) then
\* holds no entry with entry_id; deleting an absent identifier changes nothing.
C5_DeleteRemoves ==
    [][ last'.op = "delete" =>
          LET m == last'.mgr
              d == last'.date
              k == IsoFormat(d)
              absent == \A i \in 1..Len(BucketOf(entries[m], d)) :
                           BucketOf(entries[m], d)[i].id # last'.id
          IN /\ DOMAIN entries'[m] = DOMAIN entries[m]
             /\ \A x \in DOMAIN entries[m] :
                   x # k => entries'[m][x] = entries[m][x]
             /\ \A o \in Managers \ {m} : entries'[o] = entries[o]
             /\ IsRemovalOf(BucketOf(entries'[m], d), BucketOf(entries[m], d),
                            last'.id)
             /\ \A i \in 1..Len(EntriesForDate(entries'[m], d)) :
                   EntriesForDate(entries'[m], d)[i].id # last'.id
             /\ absent => entries' = entries
       ]_vars

\* C5 witness: a delete removed an entry from between two others, which are
\* different and remain.
C5_Witness ==
    /\ last.op = "delete" /\ last.result /\ last.removed = 1
    /\ LET b == BucketOf(entries[last.mgr], last.date)
       IN Len(b) = 2 /\ b[1] # b[2]

\* C6: delete returns True exactly when the store held a bucket for the
\* date before the call, and so returns False for a date on which no entry
\* has ever been stored.
C6_DeleteReportsBucket ==
    [][ last'.op = "delete" =>
          /\ last'.result = (IsoFormat(last'.date) \in DOMAIN entries[last'.mgr])
          /\ last'.date \notin everStored => ~last'.result
       ]_vars

\* C8: constructing a store from the persisted document yields the mapping
\* the store holds: the same date keys and the same entries in the same order.
C8_ReloadYieldsMapping ==
    LoadEntries(file) = entries[Primary]

RECURSIVE LenBefore(_, _, _)
\* The number of entries stored under the days from start_date up to, not
\* including, d.
LenBefore(map, start_date, d) ==
    IF d <= start_date THEN 0
    ELSE LenBefore(map, start_date, d - 1) + Len(BucketOf(map, d - 1))

C7_TotalIsSum ==
    /\ daily # NoDaily => daily.total_hours = SumHours(daily.entries)
    /\ last.op = "daily" =>
          /\ daily.date = last.date
          /\ daily.entries = BucketOf(entries[last.mgr], last.date)

\* C7 witness: remove_entry took an entry out of a DailyEntries value and
\* left others in it.
C7_Witness ==
    /\ last.op = "daily_remove" /\ last.removed >= 1
    /\ Len(daily.entries) >= 1

\* C9: every mutating call of either instance that returns True leaves as
\* the persisted document the caller's own mapping, whatever the other
\* instance had persisted, and no call raises.
C9_WholeDocumentRewrite ==
    /\ ~last.raised
    /\ (last.op \in {"add", "delete"} /\ last.result)
          => file = JsonFile(ToDocument(entries[last.mgr]))

\* C9 witness: an entry whose add returned True, and which no call has
\* deleted, is not in the persisted document; no call raised.
C9_Witness ==
    /\ ~last.raised
    /\ file.kind = "json"
    /\ \E e \in acked :
          \/ IsoFormat(e.date) \notin DOMAIN file.data
          \/ \A i \in 1..Len(file.data[IsoFormat(e.date)]) :
                file.data[IsoFormat(e.date)][i] # EntryToJson(e)

RECURSIVE HoursOfDays(_, _, _)
\* The hours stored under the days first..last, summed.
HoursOfDays(map, first, last_day) ==
    IF first > last_day THEN 0
    ELSE SumHours(BucketOf(map, first)) + HoursOfDays(map, first + 1, last_day)

DocumentBad(f) ==
    \/ f.kind # "json"
    \/ \E k \in DOMAIN f.data : \E i \in 1..Len(f.data[k]) :
          \/ "iso" \notin DOMAIN f.data[k][i].date
          \/ f.data[k][i].hours <= 0
          \/ f.data[k][i].hours > 24

\* C12: constructing a store never fails because of the persisted document;
\* when the document is missing, unreadable, malformed or holds any entry
\* that does not validate, the constructor completes and the mapping is empty.
C12_ConstructNeverFails ==
    [][last'.op = "construct" =>
          /\ ~last'.raised
          /\ last'.mgr \in constructed'
          /\ DocumentBad(file) => entries'[last'.mgr] = EmptyMap]_vars

\* C12 witness: a store constructed over a document that holds a valid entry
\* and one that does not validate.
C12_Witness ==
    /\ last.op = "construct"
    /\ file.kind = "json"
    /\ \E k \in DOMAIN file.data : \E i \in 1..Len(file.data[k]) :
          JsonEntryValid(file.data[k][i])
    /\ \E k \in DOMAIN file.data : \E i \in 1..Len(file.data[k]) :
          file.data[k][i].hours > 24
    /\ entries[Primary] = EmptyMap

\* C13: constructing a TimeEntry fails for hours <= 0 and for hours > 24 and
\* succeeds for 0 < hours <= 24; every entry a store holds, added or loaded,
\* has 0 < hours <= 24.
C13_HoursInRange ==
    /\ last.op = "new_entry" =>
          (last.raised <=> (last.hours <= 0 \/ last.hours > 24))
    /\ \A m \in Managers : \A k \in DOMAIN entries[m] :
          \A i \in 1..Len(entries[m][k]) :
             entries[m][k][i].hours > 0 /\ entries[m][k][i].hours <= 24

\* C13 witness: a construction with 25 hours failed while the store holds an
\* entry of 24 hours it loaded and an entry it was given through add.
C13_Witness ==
    /\ last.op = "new_entry" /\ last.raised /\ last.hours = 25
    /\ \E k \in DOMAIN entries[Primary] :
          /\ \E i \in 1..Len(entries[Primary][k]) :
                entries[Primary][k][i].hours = 24
          /\ \E i \in 1..Len(entries[Primary][k]) :
                entries[Primary][k][i] \in acked

\* The least index of a non-empty set of indices.
MinIndex(S) == CHOOSE i \in S : \A j \in S : i <= j

\* The value of a field for a row: the stripped cell under the first alias,
\* in the field's alias order, whose column is among the normalized headers
\* and whose cell in that row is not missing; None when there is none.
FirstFilled(table, row, field) ==
    LET names == AliasesOf(field)
        ok == { i \in DOMAIN names :
                  /\ HasColumn(table, names[i])
                  /\ CellOf(table, row, names[i]) # None }
    IN IF ok = {} THEN None
       ELSE Some(Strip(CellOf(table, row, names[MinIndex(ok)])[1]))

\* The value of a field for a row when the first alias whose column is among
\* the normalized headers decides alone.
FirstPresent(table, row, field) ==
    LET names == AliasesOf(field)
        ok == { i \in DOMAIN names : HasColumn(table, names[i]) }
    IN IF ok = {} THEN None
       ELSE LET cell == CellOf(table, row, names[MinIndex(ok)])
            IN IF cell = None THEN None ELSE Some(Strip(cell[1]))

FilledData(table, row) == [f \in Fields |-> FirstFilled(table, row, f)]
PresentData(table, row) == [f \in Fields |-> FirstPresent(table, row, f)]

\* The indices of the rows that get a record, in row order.
KeptRows(table) ==
    LET Kept(i) == FirstFilled(table, table.rows[i], "friendly_name") # None
    IN SelectSeq([i \in DOMAIN table.rows |-> i], Kept)

\* The step is a load, direct or through refresh, that read a file to the end.
LoadedStep == last'.op \in {"load", "refresh"} /\ last'.loaded
\* The table of the file the step loaded.
LoadedTable == TableOf(dir[last'.path].content)

\* C14: refresh_if_stale reloads and returns true exactly when a reference
\* file is found and either nothing has been loaded yet or the file's
\* modification time is strictly newer than the recorded load time; in every
\* other case it returns false and leaves the collection and the recorded
\* load time unchanged.
C14_RefreshExactly ==
    [][last'.op = "refresh" =>
          LET found == FindChargeCodeFile(dir)
              stale == /\ found # None
                       /\ \/ last_modified = None
                          \/ dir[found[1]].mtime > last_modified[1]
          IN /\ ~last'.raised
             /\ last'.result = stale
             /\ stale => last'.loaded
             /\ ~stale => /\ charge_codes' = charge_codes
                          /\ last_modified' = last_modified]_vars

\* C15: after a load has completed, lookup(id) resolves exactly the
\* identifiers of the current collection: every record of the collection is
\* returned for its own id, and any other id, every identifier issued
\* before that load included, returns none.
C15_LookupResolvesCurrent ==
    [][/\ last'.op = "lookup" =>
             IF \E i \in DOMAIN charge_codes : charge_codes[i].id = last'.id
             THEN \E i \in DOMAIN charge_codes :
                     /\ charge_codes[i].id = last'.id
                     /\ last'.result = Some(charge_codes[i])
             ELSE last'.result = None
       /\ LoadedStep =>
             /\ \A i \in DOMAIN charge_codes' :
                   Lookup(charge_codes', charge_codes'[i].id)
                      = Some(charge_codes'[i])
             /\ \A n \in 1..issued :
                   Lookup(charge_codes', [uuid |-> n]) = None
             /\ \A id \in LookupIds :
                   (\A i \in DOMAIN charge_codes' : charge_codes'[i].id # id)
                      => Lookup(charge_codes', id) = None]_vars

\* C15 witness: a load replaced a non-empty collection by another, and none
\* of the replaced records' identifiers resolves.
C15_Witness ==
    /\ last.op = "load" /\ last.loaded
    /\ last.replaced # <<>>
    /\ charge_codes # <<>>
    /\ \A i \in DOMAIN last.replaced :
          Lookup(charge_codes, last.replaced[i].id) = None

\* C16: every ChargeCode produced by load has a non-empty friendly_name (a
\* row whose friendly_name cell is blank after trimming is skipped).
C16_FriendlyNameNonEmpty ==
    \A i \in DOMAIN charge_codes : charge_codes[i].friendly_name # ""

\* C17 as stated: for each field, load takes the value from the first alias
\* present among the normalized headers; a later alias is never used when
\* an earlier alias column is present in the file.
C17_FirstPresentAlias ==
    [][LoadedStep =>
          LET kept == KeptRows(LoadedTable)
          IN /\ Len(charge_codes') = Len(kept)
             /\ \A i \in DOMAIN charge_codes' :
                   LET data == PresentData(LoadedTable,
                                           LoadedTable.rows[kept[i]])
                   IN /\ data["friendly_name"] # None
                      /\ Validates(data)
                      /\ charge_codes'[i]
                            = NewChargeCode(charge_codes'[i].id, data)]_vars

\* C17 amended: for each field and each row, load takes the value from the
\* first alias, in the field's alias order, whose column is among the
\* normalized headers and whose cell in that row is not missing; a later
\* alias is used only when every earlier alias has no column or a missing
\* cell in that row.
C17_FirstFilledAlias ==
    [][LoadedStep =>
          LET kept == KeptRows(LoadedTable)
          IN /\ Len(charge_codes') = Len(kept)
             /\ \A i \in DOMAIN charge_codes' :
                   LET data == FilledData(LoadedTable,
                                          LoadedTable.rows[kept[i]])
                   IN /\ data["friendly_name"] # None
                      /\ Validates(data)
                      /\ charge_codes'[i]
                            = NewChargeCode(charge_codes'[i].id, data)]_vars

\* C17 witness: a load of a file with a row whose friendly_name comes from a
\* later alias although an earlier alias has a column.
C17_Witness ==
    /\ last.op = "load" /\ last.loaded
    /\ LET table == TableOf(dir[last.path].content)
       IN \E r \in DOMAIN table.rows :
             /\ FirstPresent(table, table.rows[r], "friendly_name") = None
             /\ FirstFilled(table, table.rows[r], "friendly_name") # None
             /\ \E i \in DOMAIN charge_codes :
                   Some(charge_codes[i].friendly_name)
                      = FirstFilled(table, table.rows[r], "friendly_name")

\* C18: for any text in any of the nine optional columns of a row that has a
\* friendly name (percent included), load does not fail and the record
\* carries that text, trimmed, in the attribute; absent values stay unset.
C18_OptionalFreeText ==
    [][(/\ last'.op = "load"
        /\ last'.path \in DOMAIN dir
        /\ Suffix(last'.path) \in {".xlsx", ".xls", ".csv"}) =>
          /\ ~last'.raised
          /\ LET kept == KeptRows(LoadedTable)
             IN \A i \in DOMAIN charge_codes' :
                   LET data == FilledData(LoadedTable,
                                          LoadedTable.rows[kept[i]])
                   IN \A f \in OptionalFields :
                         charge_codes'[i][f] = TextAttr(data[f])]_vars

\* C19: after a successful load of a file, the collection consists exactly
\* of the records built from the file's non-skipped rows, in row order, no
\* record of an earlier load remains, and the recorded load time is the
\* file's modification time.
C19_CollectionIsFileRows ==
    [][LoadedStep =>
          LET kept == KeptRows(LoadedTable)
          IN /\ Len(charge_codes') = Len(kept)
             /\ \A i \in DOMAIN charge_codes' :
                   /\ charge_codes'[i]
                         = NewChargeCode(charge_codes'[i].id,
                              FilledData(LoadedTable,
                                         LoadedTable.rows[kept[i]]))
                   /\ \A j \in DOMAIN charge_codes :
                         charge_codes'[i].id # charge_codes[j].id
             /\ last'.op = "load" => last'.result = charge_codes'
             /\ last_modified' = Some(dir[last'.path].mtime)]_vars

\* C19 witness: a load of a file with a skipped row replaced a non-empty
\* collection by the two records of the file's other rows.
C19_Witness ==
    /\ last.op = "load" /\ last.loaded
    /\ last.replaced # <<>>
    /\ Len(charge_codes) = 2
    /\ Len(TableOf(dir[last.path].content).rows) = 3
    /\ last_modified = Some(dir[last.path].mtime)

\* C20 as stated: load fails with an unsupported-format error for any path
\* whose extension is neither .xlsx, .xls nor .csv, and returns an empty
\* result without raising when the path does not exist; in both cases the
\* collection and the recorded load time are unchanged.
C20_LoadRejectionsAnyPath ==
    [][last'.op = "load" =>
          LET missing == last'.path \notin DOMAIN dir
              unsupported == Suffix(last'.path) \notin {".xlsx", ".xls", ".csv"}
          IN /\ unsupported => last'.raised /\ last'.exc = "ValueError"
             /\ missing => ~last'.raised /\ last'.result = <<>>
             /\ (missing \/ unsupported) =>
                   /\ charge_codes' = charge_codes
                   /\ last_modified' = last_modified]_vars

\* C20 amended: load fails with an unsupported-format error for any existing
\* path whose extension is neither .xlsx, .xls nor .csv, and returns an
\* empty result without raising when the path does not exist, whatever its
\* extension; in both cases the collection and the recorded load time are
\* unchanged.
C20_LoadRejections ==
    [][last'.op = "load" =>
          LET missing == last'.path \notin DOMAIN dir
              unsupported == Suffix(last'.path) \notin {".xlsx", ".xls", ".csv"}
          IN /\ (~missing /\ unsupported) =>
                   last'.raised /\ last'.exc = "ValueError"
             /\ missing => ~last'.raised /\ last'.result = <<>>
             /\ (missing \/ unsupported) =>
                   /\ charge_codes' = charge_codes
                   /\ last_modified' = last_modified]_vars

\* C20 witness: a load of an existing file of unsupported extension raised
\* while a collection loaded earlier is held.
C20_Witness ==
    /\ last.op = "load" /\ last.exc = "ValueError"
    /\ last.path \in DOMAIN dir
    /\ charge_codes # <<>>
    /\ last_modified # None

\* The files of the directory a configured pattern matches.
Matching(d) == { n \in DOMAIN d : Suffix(n) \in {".xlsx", ".xls", ".csv"} }

\* C21: find_reference_file returns a file of the directory that matches a
\* configured pattern and whose modification time is at least that of every
\* other matching file; it returns none exactly when no file matches; a
\* file matching no pattern is never returned.
C21_FindNewestMatching ==
    last.op = "find" =>
       /\ last.result = None <=> Matching(dir) = {}
       /\ last.result # None =>
             /\ last.result[1] \in Matching(dir)
             /\ \A n \in Matching(dir) :
                   dir[n].mtime <= dir[last.result[1]].mtime

\* C21 witness: the file returned is newer than another matching file while
\* a file matching no pattern is the newest of the directory.
C21_Witness ==
    /\ last.op = "find" /\ last.result # None
    /\ \E n \in Matching(dir) : dir[n].mtime < dir[last.result[1]].mtime
    /\ \E n \in DOMAIN dir \ Matching(dir) :
          dir[n].mtime > dir[last.result[1]].mtime

\* C22: clear_all empties the in-memory mapping and persists the empty
\* document, reporting success exactly when the write succeeded; afterwards
\* entries_for_date returns empty for every date and a store reloaded from
\* the document is empty.
C22_ClearAll ==
    [][last'.op = "clear" =>
          /\ last'.result <=> last'.write = "ok"
          /\ last'.result =>
                /\ entries'[last'.mgr] = EmptyMap
                /\ \A d \in Dates :
                      EntriesForDate(entries'[last'.mgr], d) = <<>>
                /\ file' = JsonFile(ToDocument(EmptyMap))
                /\ LoadEntries(file') = EmptyMap]_vars

\* C22 witness: a successful clear_all of a store that had stored entries.
C22_Witness ==
    /\ last.op = "clear" /\ last.result
    /\ everStored # {}
    /\ entries[last.mgr] = EmptyMap
    /\ LoadEntries(file) = EmptyMap

\* C23: export_spreadsheet produces one row per entry of
\* entries_in_range(start, end), in the same order; each row's Friendly Name
\* is the entry's stored name, and its nine attribute columns carry the
\* attributes of the charge code the repository resolves for the entry's
\* stored charge_code_id, left blank when the identifier does not resolve.
C23_SpreadsheetRows ==
    last.op = "export_excel" =>
       LET range == EntriesForRange(entries[last.mgr], last.start, last.end)
           rows == last.result.rows
       IN /\ Len(rows) = Len(range)
          /\ \A i \in DOMAIN rows :
                /\ rows[i]["Friendly Name"] = AttrStr(range[i].charge_code_name)
                /\ \A c \in DOMAIN ExportAttributes :
                      IF \E j \in DOMAIN charge_codes :
                            charge_codes[j].id = range[i].charge_code_id
                      THEN /\ c \in last.result.columns
                           /\ \E j \in DOMAIN charge_codes :
                                 /\ charge_codes[j].id = range[i].charge_code_id
                                 /\ rows[i][c]
                                       = charge_codes[j][ExportAttributes[c]]
                      ELSE c \in last.result.columns => rows[i][c] = AttrNone

\* C23 witness: an export of two dates with a row whose charge code resolves
\* and carries a project, and a row whose identifier no longer resolves
\* although a live charge code has its name.
C23_Witness ==
    /\ last.op = "export_excel"
    /\ last.start < last.end
    /\ "Project" \in last.result.columns
    /\ \E i \in DOMAIN last.result.rows :
          last.result.rows[i]["Project"].kind = "str"
    /\ \E i \in DOMAIN last.result.rows :
          /\ last.result.rows[i]["Project"] = AttrNone
          /\ \E j \in DOMAIN charge_codes :
                AttrStr(charge_codes[j].friendly_name)
                   = last.result.rows[i]["Friendly Name"]
          /\ LET range == EntriesForRange(entries[last.mgr], last.start,
                                          last.end)
             IN Lookup(charge_codes, range[i].charge_code_id) = None

\* C24 as stated: for every date d, week_bounds(d) returns (s, e) where s
\* is a Monday, s <= d <= e and e = s + 6 days; every date inside the window
\* yields the same pair, and week_bounds(s) = (s, e).
C24_WeekBoundsEveryDate ==
    last.op = "week" =>
       /\ ~last.raised
       /\ LET s == last.result[1]
              e == last.result[2]
          IN /\ (s - 1) % 7 = 0
             /\ s <= last.date /\ last.date <= e
             /\ e = s + 6
             /\ \A d \in s..e : WeekDates(d).value = <<s, e>>
             /\ WeekDates(s).value = <<s, e>>

\* C24 amended: for every date d up to 9999-12-26, week_bounds(d) returns
\* (s, e) where s is a Monday, s <= d <= e and e = s + 6 days; every date
\* inside the window yields the same pair, and week_bounds(s) = (s, e).  For
\* the five dates after 9999-12-26 week_bounds raises.
C24_WeekBounds ==
    last.op = "week" =>
       IF last.date > DateMax - 5
       THEN last.raised
       ELSE /\ ~last.raised
            /\ LET s == last.result[1]
                   e == last.result[2]
               IN /\ (s - 1) % 7 = 0
                  /\ s <= last.date /\ last.date <= e
                  /\ e = s + 6
                  /\ \A d \in s..e : WeekDates(d).value = <<s, e>>
                  /\ WeekDates(s).value = <<s, e>>

\* C24 witness: week_bounds(2025-01-08), a Wednesday, is
\* (2025-01-06, 2025-01-12).
C24_Witness ==
    /\ last.op = "week"
    /\ last.date = 739259
    /\ last.result = <<739257, 739263>>

\* C25: entry identifiers are unique within the store: after any sequence of
\* add and delete calls, no two entries the store holds, on the same date or
\* on different dates, share an identifier.
C25_UniqueEntryIds ==
    \A m \in Managers :
       \A k1 \in DOMAIN entries[m], k2 \in DOMAIN entries[m] :
          \A i \in DOMAIN entries[m][k1], j \in DOMAIN entries[m][k2] :
             entries[m][k1][i].id = entries[m][k2][j].id
                => (k1 = k2 /\ i = j)

\* C26: provided writes do not fail, after every store operation that
\* returns, the persisted document represents exactly the in-memory mapping,
\* the same date keys and the same entries per date; a store that has never
\* written is compared against an absent or empty document.
C26_DocumentIsMapping ==
    IF file.kind = "json"
    THEN file.data = ToDocument(entries[Primary])
    ELSE file = NoFile /\ entries[Primary] = EmptyMap

\* C27: whenever refresh_if_stale returns while at least one reference file
\* is present, the collection is the one parsed from the file that
\* find_reference_file currently selects, for any sequence of file
\* creations, modifications and deletions between calls.
C27_RefreshTracksSelectedFile ==
    [][(/\ last'.op = "refresh"
        /\ ~last'.raised
        /\ FindChargeCodeFile(dir) # None) =>
          LET table == TableOf(dir[FindChargeCodeFile(dir)[1]].content)
              kept == KeptRows(table)
          IN /\ Len(charge_codes') = Len(kept)
             /\ \A i \in DOMAIN charge_codes' :
                   LET data == FilledData(table, table.rows[kept[i]])
                   IN /\ Validates(data)
                      /\ charge_codes'[i]
                            = NewChargeCode(charge_codes'[i].id, data)]_vars

\* C28: query and export operations never change the store's in-memory
\* mapping or its persisted document: querying a date with no entries
\* creates no bucket, and adding to or removing from the DailyEntries value
\* returned by daily(date) does not change what the store holds.
C28_QueriesChangeNothing ==
    [][last'.op \in {"for_date", "daily", "range", "weekly", "export_csv",
                     "export_excel", "daily_add", "daily_remove"} =>
          /\ entries' = entries
          /\ file' = file]_vars

\* C28 witness: an entry was added to the value daily(date) returned for a
\* date with stored entries, and the store holds fewer entries for that
\* date than the value does.
C28_Witness ==
    /\ last.op = "daily_add"
    /\ IsoFormat(daily.date) \in DOMAIN entries[Primary]
    /\ entries[Primary][IsoFormat(daily.date)] # <<>>
    /\ Len(daily.entries) > Len(entries[Primary][IsoFormat(daily.date)])
    /\ file = JsonFile(ToDocument(entries[Primary]))

\* C29: in every WeeklySummary, after any sequence of add_daily_entries
\* folds (the one weekly_summary performs included, and folding the same
\* date more than once included), each charge code's accumulated hours is
\* the sum of the hours of its contributing entries, the accumulated hours
\* summed over all charge codes equal total_hours, and daily_totals has a key
\* exactly for the folded days that had at least one entry.
C29_SummaryConsistent ==
    last.op \in {"fold", "weekly"} =>
       LET by_code == last.result.entries_by_charge_code
       IN /\ \A cc \in DOMAIN by_code :
                by_code[cc].total_hours = SumHours(by_code[cc].entries)
          /\ SumValues([cc \in DOMAIN by_code |-> by_code[cc].total_hours])
                = last.result.total_hours
          /\ DOMAIN last.result.daily_totals =
                IF last.op = "fold"
                THEN { IsoFormat(last.folded[i].date) :
                         i \in { j \in DOMAIN last.folded :
                                    last.folded[j].entries # <<>> } }
                ELSE { IsoFormat(d) :
                         d \in { x \in last.week_start..(last.week_start + 6) :
                                    BucketOf(entries[last.mgr], x) # <<>> } }

====
